---- MODULE Spec2Model ----
(***************************************************************************)
(* Model of the divert crate's path-finding layer                          *)
(* (examples/pathfinding.rs on top of src/lib.rs and src/binding.rs).      *)
(*                                                                         *)
(* Lengths are integers in tenths of a world unit: 2.0 is 20, 0.3 is 3.    *)
(* A Vector is a record [x, y, z]; the mesh's vertical axis is field z     *)
(* (in_range compares z against the height, x and y against the radius).   *)
(* Indices are 0-based as in the source; Sequences are 1-based, so the     *)
(* element at source index i is s[i + 1].                                  *)
(***************************************************************************)
EXTENDS Integers, Sequences, FiniteSets, TLC

VARIABLES
    pc,           \* where find_path stands: "idle", a step's name, "done", "error", "panic"
    world,        \* the mesh the engine serves: "any" or "single_poly"
    tile_map,     \* Navigator.tile_map: the packed ids it holds
    fresh,        \* tile_map was empty when this request began
    registered,   \* the packed ids of the tiles NavMesh::add_tile accepted
    input_start,  \* find_path's arguments
    input_end,
    start_pos,    \* find_nearest_poly's results
    end_pos,
    start_poly,
    end_poly,
    corridor_status, \* status of the initial corridor query of this request
    polygons,     \* the corridor (Vec<PolyRef>)
    capacity,     \* polygons.capacity()
    smooth_path,  \* the waypoints emitted so far
    iter_pos,
    target_pos,
    steer_points, \* the candidates get_steer_target's loop consumed
    steer,        \* get_steer_target's last answer
    move_target,
    move_result,
    iterations,   \* loop bodies of find_smooth_path entered in this request
    result,       \* what find_path returned
    calls,        \* engine calls issued by this request, in order
    merge,        \* the last fix_up_corridor: its inputs and its outcome
    handles       \* the engine handles allocated so far: whose, held how, freed how often

vars == << pc, world, tile_map, fresh, registered, input_start, input_end, start_pos,
           end_pos, start_poly, end_poly, corridor_status, polygons, capacity,
           smooth_path, iter_pos, target_pos, steer_points, steer, move_target, move_result,
           iterations, result, calls, merge, handles >>

---------------------------------------------------------------------------
(* Bounds of the model.                                                    *)

\* NavigatorSettings::default, scaled down: max_path is 64, max_smooth_path
\* 256, max_steer_points 3 and max_move_visits 16 in the source.
max_path == 3
max_smooth_path == 3
max_steer_points == 2
max_move_visits == 2

\* Longest corridor, visited trace and largest capacity fix_up_corridor is
\* applied to on its own.
MaxMergeLen == 3

\* The single polygon of the "single_poly" world spans x in 0 .. MeshMax.
MeshMax == 20

\* Engine handles allocated in one run of the constructors.
MaxHandles == 3
MaxTiles == 2

\* Largest horizontal coordinate, and radius, in_range is applied to.
RangeMax == 3

\* Calls of the QueryFilter setters in one run.
MaxSets == 3

---------------------------------------------------------------------------
(* Program constants.                                                      *)

smooth_step_size == 20
steer_target_radius == 3
steer_target_height == 10000

None == [none |-> TRUE]

Min(a, b) == IF a < b THEN a ELSE b
Max(a, b) == IF a > b THEN a ELSE b

\* PolyRef values: 0 is the engine's null reference.
Polys == {1, 2}
NullPoly == 0
\* a slot of a Vec's buffer past its length, never written
Uninit == -1

SeqsUpTo(S, n) == UNION { [1..k -> S] : k \in 0..n }

---------------------------------------------------------------------------
(* find_common and fix_up_corridor.                                        *)

RECURSIVE scan_other(_, _, _, _)
\* the inner loop: j from other.len()-1 down to 0 (here j is the 0-based index)
scan_other(this, other, i, j) ==
    IF j < 0 THEN None
    ELSE IF this[i + 1] = other[j + 1] THEN [i |-> i, j |-> j]
    ELSE scan_other(this, other, i, j - 1)

RECURSIVE scan_this(_, _, _)
\* the outer loop: i from this.len()-1 down to 0
scan_this(this, other, i) ==
    IF i < 0 THEN None
    ELSE LET m == scan_other(this, other, i, Len(other) - 1)
         IN IF m # None THEN m ELSE scan_this(this, other, i - 1)

\* a scan of `this` from its front: the lowest index of `this` with a match
find_common_from_front(this, other) ==
    LET hits == { i \in 0..(Len(this) - 1) :
                     scan_other(this, other, i, Len(other) - 1) # None }
    IN IF hits = {} THEN None
       ELSE scan_other(this, other,
                       CHOOSE i \in hits : \A k \in hits : i <= k,
                       Len(other) - 1)

find_common(this, other) == scan_this(this, other, Len(this) - 1)

\* The Vec's buffer: capacity slots, the first len of them initialised.
Buffer(path, cap) ==
    [k \in 0..(cap - 1) |-> IF k < Len(path) THEN path[k + 1] ELSE Uninit]

\* std::ptr::copy(src = buf + orig, dst = buf + required, size): a memmove.
ptr_copy(buf, orig, required, size) ==
    [k \in DOMAIN buf |->
        IF k >= required /\ k < required + size
        THEN buf[orig + (k - required)]
        ELSE buf[k]]

\* a loop that writes the visited trace in its own order
write_visited_in_order(buf, visited, required) ==
    [k \in DOMAIN buf |-> IF k < required THEN visited[k + 1] ELSE buf[k]]

\* for i in 0..required { path[i] = visited[(visited.len() - 1) - i] }
write_visited(buf, visited, required) ==
    [k \in DOMAIN buf |->
        IF k < required THEN visited[(Len(visited) - 1 - k) + 1] ELSE buf[k]]

\* size after the clip of lines 98-100; requires required <= cap
clip_size(required, size, cap) ==
    IF required + size > cap THEN cap - required ELSE size

\* The outcomes of fix_up_corridor(path, visited) on a Vec of capacity cap.
\*   "ok"             the merged corridor
\*   "panic_unwrap"   find_common found nothing: unwrap() of None
\* When required > capacity, capacity - required underflows (line 99):
\*   "panic_overflow" with overflow checks on;
\*   with them off the subtraction wraps, set_len gets capacity and ptr::copy
\*   a count near 2^64, undefined behaviour, which the build turns into
\*   "crash"          the out-of-bounds copy kills the process, or
\*   "panic_index"    the copy is survived and path[capacity] = .. on line
\*                    117 fails its bounds check.
fix_up_corridor(path, cap, visited) ==
    LET m == find_common(path, visited)
    IN IF m = None
       THEN { [status |-> "panic_unwrap", path |-> path] }
       ELSE
         LET required == Len(visited) - m.j
             orig     == Min(m.i + 1, Len(path))
             size0    == Max(0, Len(path) - orig)
         IN IF required + size0 > cap /\ required > cap
            THEN { [status |-> st, path |-> path] :
                      st \in {"panic_overflow", "crash", "panic_index"} }
            ELSE
              LET size   == clip_size(required, size0, cap)
                  newlen == required + size
                  buf    == write_visited(
                                ptr_copy(Buffer(path, cap), orig, required, size),
                                visited, required)
              IN { [status |-> "ok",
                    path |-> [k \in 1..newlen |-> buf[k - 1]]] }

---------------------------------------------------------------------------
(* Vector (lib.rs) and in_range.                                           *)

Vec(x, y, z) == [x |-> x, y |-> y, z |-> z]
from_xyz(x, y, z) == [x |-> x, y |-> y, z |-> z]
from_yzx(y, z, x) == [x |-> x, y |-> y, z |-> z]
Origin == Vec(0, 0, 0)

dot(a, b) == a.x * b.x + a.y * b.y + a.z * b.z
vsub(a, b) == [x |-> a.x - b.x, y |-> a.y - b.y, z |-> a.z - b.z]
vadd(a, b) == [x |-> a.x + b.x, y |-> a.y + b.y, z |-> a.z + b.z]

Abs(n) == IF n < 0 THEN 0 - n ELSE n

RECURSIVE sqrt_from(_, _)
sqrt_from(n, r) == IF (r + 1) * (r + 1) > n THEN r ELSE sqrt_from(n, r + 1)

\* f32::sqrt, on the integers (the largest r with r * r <= n): exact on the
\* squares the model's points give
sqrt(n) == sqrt_from(n, 0)

\* a test that takes the vertical difference with its sign
in_range_without_abs(source, destination, radius, height) ==
    LET dx == destination.y - source.y
        dy == destination.z - source.z
        dz == destination.x - source.x
    IN (dx * dx + dz * dz) < radius * radius /\ dy < height

\* a test that compares the squared distance with the radius itself
in_range_unsquared(source, destination, radius, height) ==
    LET dx == destination.y - source.y
        dy == destination.z - source.z
        dz == destination.x - source.x
    IN (dx * dx + dz * dz) < radius /\ Abs(dy) < height

in_range(source, destination, radius, height) ==
    LET dx == destination.y - source.y
        dy == destination.z - source.z
        dz == destination.x - source.x
    IN (dx * dx + dz * dz) < radius * radius /\ Abs(dy) < height

---------------------------------------------------------------------------
(* Bit operations on the machine's words.                                  *)

RECURSIVE BitOr(_, _, _)
\* a | b on words of n bits
BitOr(a, b, n) ==
    IF n = 0 THEN 0
    ELSE (IF a % 2 = 1 \/ b % 2 = 1 THEN 1 ELSE 0)
         + 2 * BitOr(a \div 2, b \div 2, n - 1)

RECURSIVE BitAnd(_, _, _)
\* a & b on words of n bits
BitAnd(a, b, n) ==
    IF n = 0 THEN 0
    ELSE (IF a % 2 = 1 /\ b % 2 = 1 THEN 1 ELSE 0)
         + 2 * BitAnd(a \div 2, b \div 2, n - 1)

---------------------------------------------------------------------------
(* Tiles.                                                                  *)

\* (32.0 - (w / 533.3333)) as u32, w in tenths: 32 - 3w/16000, truncated,
\* and 0 for a negative value (a float-to-u32 cast saturates).
to_tile(w) ==
    LET n == 512000 - 3 * w
    IN IF n < 0 THEN 0 ELSE n \div 16000

world_to_trinity(world_x, world_y) == << to_tile(world_x), to_tile(world_y) >>

\* a packing that loses tile_x altogether (a shift by the word's width)
packed_tile_id_ty_only(tile_x, tile_y) ==
    [hi |-> (tile_y \div 65536) % 65536, lo |-> tile_y % 65536]

\* a packing that shifts tile_x by 8 bits only
packed_tile_id_shift_8(tile_x, tile_y) ==
    [hi |-> BitOr(((tile_x * 256) \div 65536) % 65536, (tile_y \div 65536) % 65536, 16),
     lo |-> BitOr((tile_x * 256) % 65536, tile_y % 65536, 16)]

\* (tile_x << 16 | tile_y) as u32.  A u32 is kept as its two 16-bit halves
\* [hi, lo]: tile_x << 16 drops the bits of tile_x above the low 16.
packed_tile_id(tile_x, tile_y) ==
    [hi |-> BitOr(tile_x % 65536, (tile_y \div 65536) % 65536, 16),
     lo |-> tile_y % 65536]

has_tile(map, tile_x, tile_y) == packed_tile_id(tile_x, tile_y) \in map

---------------------------------------------------------------------------
(* DtStatus and DtStraightPathFlags (binding.rs).                          *)

OkStatus == {"SUCCESS"}
PartialStatus == {"SUCCESS", "PARTIAL_RESULT"}
FailStatus == {"FAILURE", "INVALID_PARAM"}
FailPartialStatus == {"FAILURE", "PARTIAL_RESULT"}

\* a test that takes every status other than plain SUCCESS for a failure
is_failed_unless_plain_success(status) == status # {"SUCCESS"}

\* DtStatus::is_failed: the FAILURE bit alone decides
is_failed(status) == "FAILURE" \in status

START == 1
END == 2
OFFMESH_CONNECTION == 3

\* bitflags' contains: every bit of mask is set in flags
contains(flags, mask) == BitAnd(flags, mask, 8) = mask

---------------------------------------------------------------------------
(* get_steer_target's scan and find_smooth_path's step sizing.             *)

\* a test that leaves the off-mesh flag out
steer_selected_in_range_only(p, cur) ==
    ~in_range(p.pos, cur, steer_target_radius, steer_target_height)

\* the test of lines 243-250 on one candidate
steer_selected(p, cur) ==
    \/ contains(p.flags, OFFMESH_CONNECTION)
    \/ ~in_range(p.pos, cur, steer_target_radius, steer_target_height)

RECURSIVE scan_steer(_, _, _)
\* the for loop of lines 242-254, from candidate k (1-based) on
scan_steer(points, cur, k) ==
    IF k > Len(points) THEN None
    ELSE IF steer_selected(points[k], cur)
         THEN [pos   |-> [points[k].pos EXCEPT !.z = cur.z],
               flags |-> points[k].flags,
               poly  |-> points[k].poly,
               index |-> k]
         ELSE scan_steer(points, cur, k + 1)

get_steer_target(points, cur) == scan_steer(points, cur, 1)

\* lines 283-290: the factor delta is multiplied by, as a fraction
step_ratio(steer_flags, len) ==
    IF contains(steer_flags, BitOr(END, OFFMESH_CONNECTION, 8))
       /\ len < smooth_step_size
    THEN [num |-> 1, den |-> 1]
    ELSE [num |-> smooth_step_size, den |-> len]

\* delta * len, then iter_pos + it (line 292); a zero length divides by zero
\* and gives NaN coordinates
scaled(c, d, ratio) ==
    IF ratio.den = 0 THEN "NaN" ELSE c + (d * ratio.num) \div ratio.den

compute_move_target(pos, steer_pos, steer_flags) ==
    LET delta == vsub(steer_pos, pos)
        len   == sqrt(dot(delta, delta))
        ratio == step_ratio(steer_flags, len)
    IN [x |-> scaled(pos.x, delta.x, ratio),
        y |-> scaled(pos.y, delta.y, ratio),
        z |-> scaled(pos.z, delta.z, ratio)]

---------------------------------------------------------------------------
(* The engine (Detour, behind the extern "C" functions of binding.rs) and  *)
(* the tile provider.  In the world "any" every call answers with any      *)
(* status and any value of its result type; in "single_poly" the mesh is   *)
(* one polygon, 1, spanning x in 0 .. MeshMax at height 0, and no call     *)
(* fails.                                                                  *)

Worlds == {"any", "single_poly"}

\* points the engine answers with: closest boundary points, points moved
\* to, straight-path points (10, 20 and 30 from BoundaryPoints), heights
BoundaryPoints == { Vec(0, 0, 0) }
MovePoints == { Vec(10, 0, 0) }
EnginePoints == { Vec(0, 0, 0), Vec(10, 0, 0), Vec(30, 0, 0) }
Heights == {10}
SteerFlags == {START, END, OFFMESH_CONNECTION}
SteerCandidates ==
    { [pos |-> q, flags |-> f, poly |-> 1] : q \in EnginePoints, f \in SteerFlags }

\* find_path's arguments: x in tenths, tiles (32,32), (31,32) and (65567,32)
StartPoints == { from_xyz(0, 0, 0), from_xyz(10, 0, 0) }
EndPoints == { from_xyz(10, 0, 0), from_xyz(-349520000, 0, 0) }

\* on the single polygon a caller also starts 0.2 from the end (1,0,0),
\* inside steer_target_radius
Starts(w) ==
    IF w = "single_poly" THEN StartPoints \cup { from_xyz(8, 0, 0) } ELSE StartPoints

NonEmptySeqs(S, n) == UNION { [1..k -> S] : k \in 1..n }

Clamp(v, lo, hi) == IF v < lo THEN lo ELSE IF v > hi THEN hi ELSE v

AnyNearest ==
    { [status |-> OkStatus, poly |-> r, point |-> q] :
          r \in Polys \cup {NullPoly}, q \in BoundaryPoints }
    \cup { [status |-> FailStatus, poly |-> NullPoly, point |-> Origin] }

AnyCorridor ==
    { [status |-> st, path |-> c] :
          st \in {OkStatus, PartialStatus}, c \in NonEmptySeqs(Polys, max_path) }
    \cup { [status |-> st, path |-> << >>] : st \in {FailStatus, FailPartialStatus} }

AnyBoundary ==
    { [status |-> OkStatus, point |-> q] : q \in BoundaryPoints }
    \cup { [status |-> FailStatus, point |-> Origin] }

AnyStraight ==
    { [status |-> OkStatus, points |-> l] :
          l \in SeqsUpTo(SteerCandidates, max_steer_points) }
    \cup { [status |-> FailStatus, points |-> << >>] }

AnyMove ==
    { [status |-> OkStatus, point |-> q, visited |-> v] :
          q \in MovePoints, v \in SeqsUpTo(Polys, max_move_visits) }
    \cup { [status |-> FailStatus, point |-> Origin, visited |-> << >>] }

AnyHeight ==
    { [status |-> OkStatus, height |-> h] : h \in Heights }
    \cup { [status |-> FailStatus, height |-> 0] }

\* TileProvider::read_tile_data
TileDataResponses(w) ==
    IF w = "single_poly" THEN {"ok"} ELSE {"ok", "io_error"}

\* dtNavMesh_addTile
AddTileResponses(w) ==
    IF w = "single_poly" THEN {OkStatus} ELSE {OkStatus, FailStatus}

\* dtNavMeshQuery_findNearestPoly
NearestResponses(w, center) ==
    IF w = "single_poly"
    THEN { [status |-> OkStatus, poly |-> 1, point |-> center] }
    ELSE AnyNearest

\* dtNavMeshQuery_findPath: whenever it does not fail it reports at least
\* the start polygon, and at most max_path polygons
CorridorResponses(w) ==
    IF w = "single_poly"
    THEN { [status |-> OkStatus, path |-> << 1 >>] }
    ELSE AnyCorridor

\* dtNavMeshQuery_closestPointOnPolyBoundary
BoundaryResponses(w, position) ==
    IF w = "single_poly"
    THEN { [status |-> OkStatus, point |-> position] }
    ELSE AnyBoundary

\* dtNavMeshQuery_findStraightPath: at most max_steer_points results
StraightResponses(w, from, to) ==
    IF w = "single_poly"
    THEN { [status |-> OkStatus,
            points |-> SubSeq(<< [pos |-> from, flags |-> START, poly |-> 1],
                                 [pos |-> to, flags |-> END, poly |-> 1] >>,
                              1, Min(2, max_steer_points))] }
    ELSE AnyStraight

\* dtNavMeshQuery_moveAlongSurface: at most max_move_visits visited polygons
MoveResponses(w, start_ref, to) ==
    IF w = "single_poly"
    THEN { [status |-> OkStatus,
            point |-> [to EXCEPT !.x = Clamp(to.x, 0, MeshMax)],
            visited |-> << start_ref >>] }
    ELSE AnyMove

\* dtNavMeshQuery_getPolyHeight
HeightResponses(w) ==
    IF w = "single_poly"
    THEN { [status |-> OkStatus, height |-> 0] }
    ELSE AnyHeight

---------------------------------------------------------------------------
(* Navigator::find_path, one step per call into the engine.                *)

Ok(path) == [ok |-> TRUE, path |-> path, err |-> "", status |-> {}]
Err(kind, status) == [ok |-> FALSE, path |-> << >>, err |-> kind, status |-> status]
NoResult == [ok |-> FALSE, path |-> << >>, err |-> "none", status |-> {}]

\* an entry of calls; resident: the call is for a tile whose id tile_map holds
Call(op, status) ==
    [op |-> op, failed |-> is_failed(status), resident |-> FALSE]
\* a query about a polygon and a position
PointCall(op, status, poly, position) ==
    [op |-> op, failed |-> is_failed(status), resident |-> FALSE,
     poly |-> poly, at |-> position]
TileCall(op, status, tile) ==
    [op |-> op, failed |-> is_failed(status),
     resident |-> packed_tile_id(tile[1], tile[2]) \in tile_map]

NoMerge == [path |-> << >>, cap |-> 0, visited |-> << >>, status |-> "none", out |-> << >>]

\* A handle: the wrapper type it was allocated for, how it is held
\* ("owned" by a constructed wrapper, "dropped" with its wrapper, or
\* "init_failed": the constructor returned Err after allocating it), and
\* the number of times the engine's free was called on it.
Handle(kind, state, frees) == [kind |-> kind, state |-> state, frees |-> frees]

\* Navigator::new is given a constructed NavMesh, NavMeshQuery and QueryFilter
NavigatorHandles ==
    << Handle("NavMesh", "owned", 0), Handle("NavMeshQuery", "owned", 0),
       Handle("QueryFilter", "owned", 0) >>

Init ==
    /\ pc = "idle"
    /\ world \in Worlds
    /\ tile_map = {}
    /\ fresh = TRUE
    /\ registered = {}
    /\ input_start = Origin
    /\ input_end = Origin
    /\ start_pos = Origin
    /\ end_pos = Origin
    /\ start_poly = NullPoly
    /\ end_poly = NullPoly
    /\ corridor_status = {}
    /\ polygons = << >>
    /\ capacity = 0
    /\ smooth_path = << >>
    /\ iter_pos = Origin
    /\ target_pos = Origin
    /\ steer_points = << >>
    /\ steer = None
    /\ move_target = Origin
    /\ move_result = Origin
    /\ iterations = 0
    /\ result = NoResult
    /\ calls = << >>
    /\ merge = NoMerge
    /\ handles = NavigatorHandles

\* a call of find_path(input_start, input_end) by the owner of the Navigator
Request(s, e) ==
    /\ pc \in {"idle", "done", "error"}
    /\ world = "single_poly" => e.x \in 0..MeshMax
    /\ pc' = "start_tile"
    /\ input_start' = s
    /\ input_end' = e
    /\ fresh' = (tile_map = {})
    /\ start_pos' = Origin
    /\ end_pos' = Origin
    /\ start_poly' = NullPoly
    /\ end_poly' = NullPoly
    /\ corridor_status' = {}
    /\ polygons' = << >>
    /\ capacity' = 0
    /\ smooth_path' = << >>
    /\ iter_pos' = Origin
    /\ target_pos' = Origin
    /\ steer_points' = << >>
    /\ steer' = None
    /\ move_target' = Origin
    /\ move_result' = Origin
    /\ iterations' = 0
    /\ result' = NoResult
    /\ calls' = << >>
    /\ merge' = NoMerge
    /\ UNCHANGED << handles, world, tile_map, registered >>

\* an error path that hands back the waypoints emitted so far
Fail_returning_waypoints(kind, status) ==
    /\ pc' = "done"
    /\ result' = Ok(smooth_path)

\* return Err(DivertError::kind(status)), the `?` of every call
Fail(kind, status) ==
    /\ pc' = "error"
    /\ result' = Err(kind, status)

\* a map that keeps only the tile inserted last
insert_replacing(map, id) == { id }

\* self.tile_map.insert(id, true)
insert(map, id) == map \cup { id }

\* an add_tile that does not look at the engine's answer
add_tile_unchecked(tile, next) ==
    \E data \in TileDataResponses(world) :
        IF data = "io_error"
        THEN /\ pc' = "panic"
             /\ calls' = Append(calls, TileCall("read_tile_data", FailStatus, tile))
             /\ UNCHANGED << tile_map, registered, result >>
        ELSE \E st \in AddTileResponses(world) :
                /\ calls' = calls \o << TileCall("read_tile_data", OkStatus, tile),
                                        TileCall("add_tile", st, tile) >>
                /\ tile_map' = insert(tile_map, packed_tile_id(tile[1], tile[2]))
                /\ registered' = IF is_failed(st) THEN registered
                                 ELSE registered \cup { packed_tile_id(tile[1], tile[2]) }
                /\ pc' = next
                /\ UNCHANGED result

\* an add_tile that marks the tile resident before the engine has answered
add_tile_recording_first(tile, next) ==
    \E data \in TileDataResponses(world) :
        IF data = "io_error"
        THEN /\ pc' = "panic"
             /\ calls' = Append(calls, TileCall("read_tile_data", FailStatus, tile))
             /\ UNCHANGED << tile_map, registered, result >>
        ELSE \E st \in AddTileResponses(world) :
                /\ calls' = calls \o << TileCall("read_tile_data", OkStatus, tile),
                                        TileCall("add_tile", st, tile) >>
                /\ tile_map' = insert(tile_map, packed_tile_id(tile[1], tile[2]))
                /\ IF is_failed(st)
                   THEN /\ Fail("Failure", st)
                        /\ UNCHANGED registered
                   ELSE /\ registered' = registered \cup { packed_tile_id(tile[1], tile[2]) }
                        /\ pc' = next
                        /\ UNCHANGED result

\* Navigator::add_tile, then on to step next
add_tile(tile, next) ==
    \E data \in TileDataResponses(world) :
        IF data = "io_error"
        THEN /\ pc' = "panic"
             /\ calls' = Append(calls, TileCall("read_tile_data", FailStatus, tile))
             /\ UNCHANGED << tile_map, registered, result >>
        ELSE \E st \in AddTileResponses(world) :
                /\ calls' = calls \o << TileCall("read_tile_data", OkStatus, tile),
                                        TileCall("add_tile", st, tile) >>
                /\ IF is_failed(st)
                   THEN /\ Fail("Failure", st)
                        /\ UNCHANGED << tile_map, registered >>
                   ELSE /\ tile_map' = insert(tile_map, packed_tile_id(tile[1], tile[2]))
                        /\ registered' = registered \cup { packed_tile_id(tile[1], tile[2]) }
                        /\ pc' = next
                        /\ UNCHANGED result

\* a load that does not ask has_tile first
ensure_tile_unguarded(tile, next) == add_tile(tile, next)

\* if !self.has_tile(..) { self.add_tile(..)? } of lines 327-337
ensure_tile(tile, next) ==
    IF has_tile(tile_map, tile[1], tile[2])
    THEN /\ pc' = next
         /\ UNCHANGED << tile_map, registered, result, calls >>
    ELSE add_tile(tile, next)

TileFrame ==
    UNCHANGED << handles, world, fresh, input_start, input_end, start_pos, end_pos, start_poly,
                 end_poly, corridor_status, polygons, capacity, smooth_path, iter_pos,
                 target_pos, steer_points, steer, move_target, move_result,
                 iterations, merge >>

LoadStartTile ==
    /\ pc = "start_tile"
    /\ ensure_tile(world_to_trinity(input_start.x, input_start.y), "end_tile")
    /\ TileFrame

LoadEndTile ==
    /\ pc = "end_tile"
    /\ ensure_tile(world_to_trinity(input_end.x, input_end.y), "nearest_start")
    /\ TileFrame

NearestStart ==
    /\ pc = "nearest_start"
    /\ \E r \in NearestResponses(world, input_start) :
        /\ calls' = Append(calls, Call("find_nearest_poly", r.status))
        /\ IF is_failed(r.status)
           THEN /\ Fail("FindNearestPolyFailure", r.status)
                /\ UNCHANGED << start_poly, start_pos >>
           ELSE /\ start_poly' = r.poly
                /\ start_pos' = r.point
                /\ pc' = "nearest_end"
                /\ UNCHANGED result
    /\ UNCHANGED << handles, world, tile_map, fresh, registered, input_start, input_end, end_pos,
                    end_poly, corridor_status, polygons, capacity, smooth_path,
                    iter_pos, target_pos, steer_points, steer, move_target,
                    move_result, iterations, merge >>

NearestEnd ==
    /\ pc = "nearest_end"
    /\ \E r \in NearestResponses(world, input_end) :
        /\ calls' = Append(calls, Call("find_nearest_poly", r.status))
        /\ IF is_failed(r.status)
           THEN /\ Fail("FindNearestPolyFailure", r.status)
                /\ UNCHANGED << end_poly, end_pos >>
           ELSE /\ end_poly' = r.poly
                /\ end_pos' = r.point
                /\ pc' = "corridor"
                /\ UNCHANGED result
    /\ UNCHANGED << handles, world, tile_map, fresh, registered, input_start, input_end, start_pos,
                    start_poly, corridor_status, polygons, capacity, smooth_path,
                    iter_pos, target_pos, steer_points, steer, move_target,
                    move_result, iterations, merge >>

\* a corridor Vec that has room for the polygons it holds and no more
corridor_capacity_exact(requested, path) == Len(path)

\* Vec::with_capacity(max_path), then set_len(path_count): the capacity the
\* corridor Vec is handed on with
corridor_capacity(requested, path) == requested

\* NavMeshQuery::find_path (lib.rs): a Vec of capacity max_path, its length
\* set to the engine's path_count
Corridor ==
    /\ pc = "corridor"
    /\ \E r \in CorridorResponses(world) :
        /\ calls' = Append(calls, Call("find_path", r.status))
        /\ corridor_status' = r.status
        /\ IF is_failed(r.status)
           THEN /\ Fail("FindPathFailure", r.status)
                /\ UNCHANGED << polygons, capacity >>
           ELSE /\ polygons' = r.path
                /\ capacity' = corridor_capacity(max_path, r.path)
                /\ pc' = "boundary_start"
                /\ UNCHANGED result
    \* start_poly and end_poly are not read again
    /\ start_poly' = NullPoly
    /\ end_poly' = NullPoly
    /\ UNCHANGED << handles, world, tile_map, fresh, registered, input_start, input_end, start_pos,
                    end_pos, smooth_path, iter_pos, target_pos,
                    steer_points, steer, move_target, move_result, iterations, merge >>

\* a start query about the corridor's last polygon
start_query_on_last(polys, position) ==
    [poly |-> polys[Len(polys)], at |-> position]

\* the arguments of the query of lines 267-269: *polygons.first().unwrap()
\* and find_smooth_path's start_pos
start_query(polys, position) ==
    [poly |-> polys[1], at |-> position]

\* find_smooth_path, lines 267-269
BoundaryStart ==
    /\ pc = "boundary_start"
    /\ \E r \in BoundaryResponses(world, start_query(polygons, start_pos).at) :
        /\ calls' = Append(calls, PointCall("closest_point_on_poly_boundary", r.status,
                                            start_query(polygons, start_pos).poly,
                                            start_query(polygons, start_pos).at))
        /\ IF is_failed(r.status)
           THEN /\ Fail("ClosestPointOnPolyBoundaryFailure", r.status)
                /\ UNCHANGED iter_pos
           ELSE /\ iter_pos' = r.point
                /\ pc' = "boundary_end"
                /\ UNCHANGED result
    \* start_pos is not read again
    /\ start_pos' = Origin
    /\ UNCHANGED << handles, world, tile_map, fresh, registered, input_start, input_end,
                    end_pos, start_poly, end_poly, corridor_status, polygons, capacity,
                    smooth_path, target_pos, steer_points, steer, move_target,
                    move_result, iterations, merge >>

\* find_smooth_path, lines 271-275
BoundaryEnd ==
    /\ pc = "boundary_end"
    /\ \E r \in BoundaryResponses(world, end_pos) :
        /\ calls' = Append(calls, Call("closest_point_on_poly_boundary", r.status))
        /\ IF is_failed(r.status)
           THEN /\ Fail("ClosestPointOnPolyBoundaryFailure", r.status)
                /\ UNCHANGED << target_pos, smooth_path >>
           ELSE /\ target_pos' = r.point
                /\ smooth_path' = << iter_pos >>
                /\ pc' = "loop"
                /\ UNCHANGED result
    \* end_pos is not read again
    /\ end_pos' = Origin
    /\ UNCHANGED << handles, world, tile_map, fresh, registered, input_start, input_end, start_pos,
                    start_poly, end_poly, corridor_status, polygons, capacity,
                    iter_pos, steer_points, steer, move_target, move_result,
                    iterations, merge >>

\* a loop test that leaves the output's capacity out
loop_continues_without_capacity(polys, path) == polys # << >>

\* the while condition of line 276; smooth_path.capacity() is max_smooth_path
loop_continues(polys, path) ==
    polys # << >> /\ Len(path) < max_smooth_path

\* What get_steer_target makes of find_straight_path's answer r: the
\* candidates its loop consumed (it returns at the first one it selects and
\* drops the rest unread) and the target it returns.
steer_outcome(r, cur) ==
    LET t == IF is_failed(r.status) THEN None ELSE get_steer_target(r.points, cur)
    IN [status |-> r.status,
        points |-> IF t = None THEN r.points ELSE SubSeq(r.points, 1, t.index),
        target |-> t]

\* the loop's test, get_steer_target and the step sizing (lines 276-292)
Steer ==
    /\ pc = "loop"
    /\ IF ~loop_continues(polygons, smooth_path)
       THEN /\ pc' = "done"
            /\ result' = Ok(smooth_path)
            /\ UNCHANGED << steer_points, steer, move_target, iterations, calls >>
       ELSE \E o \in { steer_outcome(r, iter_pos) :
                           r \in StraightResponses(world, iter_pos, target_pos) } :
            /\ iterations' = iterations + 1
            /\ calls' = Append(calls, Call("find_straight_path", o.status))
            /\ IF is_failed(o.status)
               THEN /\ Fail("FindStraightPathFailure", o.status)
                    /\ UNCHANGED << steer_points, steer, move_target >>
               ELSE LET t == o.target
                    IN /\ steer_points' = o.points
                       /\ steer' = t
                       /\ IF t = None
                          THEN /\ pc' = "done"
                               /\ result' = Ok(smooth_path)
                               /\ UNCHANGED move_target
                          ELSE /\ move_target' = compute_move_target(iter_pos, t.pos, t.flags)
                               /\ pc' = "move"
                               /\ UNCHANGED result
    /\ UNCHANGED << handles, world, tile_map, fresh, registered, input_start, input_end, start_pos,
                    end_pos, start_poly, end_poly, corridor_status, polygons, capacity,
                    smooth_path, iter_pos, target_pos, move_result, merge >>

\* move_along_surface and fix_up_corridor (lines 293-301)
Move ==
    /\ pc = "move"
    /\ \E r \in MoveResponses(world, polygons[1], move_target) :
        /\ calls' = Append(calls, Call("move_along_surface", r.status))
        /\ IF is_failed(r.status)
           THEN /\ Fail("MoveAlongSurfaceFailure", r.status)
                /\ UNCHANGED << polygons, move_result, merge >>
           ELSE \E m \in fix_up_corridor(polygons, capacity, r.visited) :
                /\ merge' = [path |-> polygons, cap |-> capacity, visited |-> r.visited,
                             status |-> m.status, out |-> m.path]
                /\ IF m.status = "ok"
                   THEN /\ polygons' = m.path
                        /\ move_result' = r.point
                        /\ pc' = "height"
                   ELSE /\ pc' = "panic"
                        /\ UNCHANGED << polygons, move_result >>
                /\ UNCHANGED result
    \* the steer target and the move target are not read again
    /\ steer_points' = << >>
    /\ steer' = None
    /\ move_target' = Origin
    /\ UNCHANGED << handles, world, tile_map, fresh, registered, input_start, input_end, start_pos,
                    end_pos, start_poly, end_poly, corridor_status, capacity,
                    smooth_path, iter_pos, target_pos, iterations >>

\* the same step with get_poly_height(..)? in place of unwrap_or(0.0)
HeightAborting ==
    /\ pc = "height"
    /\ \E r \in HeightResponses(world) :
        /\ calls' = Append(calls, Call("get_poly_height", r.status))
        /\ IF is_failed(r.status)
           THEN /\ Fail("GetPolyHeightFailure", r.status)
                /\ UNCHANGED << iter_pos, smooth_path >>
           ELSE /\ iter_pos' = from_yzx(move_result.y, r.height + 5, move_result.x)
                /\ smooth_path' = Append(smooth_path, iter_pos')
                /\ pc' = "loop"
                /\ UNCHANGED result
    /\ move_result' = Origin
    /\ merge' = NoMerge
    /\ UNCHANGED << handles, world, tile_map, fresh, registered, input_start, input_end, start_pos,
                    end_pos, start_poly, end_poly, corridor_status, polygons, capacity,
                    target_pos, steer_points, steer, move_target, iterations >>

\* a push that puts the new waypoint in front
push_front(path, p) == << p >> \o path

\* smooth_path.push(iter_pos), line 310
push(path, p) == Append(path, p)

\* get_poly_height and the new waypoint (lines 303-310); + 0.5 is + 5
Height ==
    /\ pc = "height"
    /\ \E r \in HeightResponses(world) :
        LET height == IF is_failed(r.status) THEN 0 ELSE r.height
        IN /\ calls' = Append(calls, Call("get_poly_height", r.status))
           /\ iter_pos' = from_yzx(move_result.y, height + 5, move_result.x)
           /\ smooth_path' = push(smooth_path, iter_pos')
    /\ pc' = "loop"
    \* the move's result and the visited trace are not read again
    /\ move_result' = Origin
    /\ merge' = NoMerge
    /\ UNCHANGED << handles, world, tile_map, fresh, registered, input_start, input_end, start_pos,
                    end_pos, start_poly, end_poly, corridor_status, polygons, capacity,
                    target_pos, steer_points, steer, move_target,
                    iterations, result >>

Next ==
    \/ \E s \in Starts(world), e \in EndPoints : Request(s, e)
    \/ LoadStartTile
    \/ LoadEndTile
    \/ NearestStart
    \/ NearestEnd
    \/ Corridor
    \/ BoundaryStart
    \/ BoundaryEnd
    \/ Steer
    \/ Move
    \/ Height

Spec == Init /\ [][Next]_vars

---------------------------------------------------------------------------
(* The tile store on its own: any sequence of tile loads, at coordinates   *)
(* on both sides of 65536, with a provider and an engine that accept every *)
(* tile.                                                                   *)

TileXs == {0, 1, 65535, 65536}
TileYs == {0, 256, 65535}

InitTiles ==
    /\ pc = "tiles"
    /\ world = "single_poly"
    /\ tile_map = {}
    /\ fresh = TRUE
    /\ registered = {}
    /\ input_start = Origin
    /\ input_end = Origin
    /\ start_pos = Origin
    /\ end_pos = Origin
    /\ start_poly = NullPoly
    /\ end_poly = NullPoly
    /\ corridor_status = {}
    /\ polygons = << >>
    /\ capacity = 0
    /\ smooth_path = << >>
    /\ iter_pos = Origin
    /\ target_pos = Origin
    /\ steer_points = << >>
    /\ steer = None
    /\ move_target = Origin
    /\ move_result = Origin
    /\ iterations = 0
    /\ result = NoResult
    /\ calls = << >>
    /\ merge = NoMerge
    /\ handles = NavigatorHandles

\* an accepted registration, with the coordinates it was for
StoredCall(tile) ==
    [op |-> "add_tile", failed |-> FALSE, resident |-> FALSE, tile |-> tile]

\* if !self.has_tile(tx, ty) { self.add_tile(tx, ty)? } for one tile, the
\* provider and the engine accepting it
StoreTile(tile) ==
    /\ pc = "tiles"
    /\ Len(calls) < MaxTiles
    /\ IF has_tile(tile_map, tile[1], tile[2])
       THEN UNCHANGED << tile_map, registered, calls >>
       ELSE /\ tile_map' = insert(tile_map, packed_tile_id(tile[1], tile[2]))
            /\ registered' = registered \cup { packed_tile_id(tile[1], tile[2]) }
            /\ calls' = Append(calls, StoredCall(tile))
    /\ UNCHANGED << pc, result >>
    /\ TileFrame

NextTiles == \E tx \in TileXs, ty \in TileYs : StoreTile(<< tx, ty >>)

SpecTiles == InitTiles /\ [][NextTiles]_vars

---------------------------------------------------------------------------
(* in_range on its own: any two positions, radius and height.  iter_pos is *)
(* the source, target_pos the destination; steer holds the radius, the     *)
(* height and the two answers, in_range(source, destination, ..) and       *)
(* in_range(destination, source, ..).                                      *)

RangePoints ==
    { Vec(x, y, z) : x \in 0..RangeMax, y \in {0, RangeMax}, z \in {-10, 0, 10} }
RangeRadii == {0, RangeMax, RangeMax + 1, -RangeMax}
RangeHeights == {0, 10, 11}

InitRange ==
    /\ pc = "range_input"
    /\ world = "any"
    /\ tile_map = {}
    /\ fresh = TRUE
    /\ registered = {}
    /\ input_start = Origin
    /\ input_end = Origin
    /\ start_pos = Origin
    /\ end_pos = Origin
    /\ start_poly = NullPoly
    /\ end_poly = NullPoly
    /\ corridor_status = {}
    /\ polygons = << >>
    /\ capacity = 0
    /\ smooth_path = << >>
    /\ iter_pos \in RangePoints
    /\ target_pos \in RangePoints
    /\ steer_points = << >>
    /\ \E r \in RangeRadii, h \in RangeHeights :
          steer = [radius |-> r, height |-> h, forth |-> FALSE, back |-> FALSE]
    /\ move_target = Origin
    /\ move_result = Origin
    /\ iterations = 0
    /\ result = NoResult
    /\ calls = << >>
    /\ merge = NoMerge
    /\ handles = << >>

ApplyInRange ==
    /\ pc = "range_input"
    /\ steer' = [steer EXCEPT
                   !.forth = in_range(iter_pos, target_pos, steer.radius, steer.height),
                   !.back = in_range(target_pos, iter_pos, steer.radius, steer.height)]
    /\ pc' = "ranged"
    /\ UNCHANGED << handles, world, tile_map, fresh, registered, input_start, input_end, start_pos,
                    end_pos, start_poly, end_poly, corridor_status, polygons, capacity,
                    smooth_path, iter_pos, target_pos, steer_points,
                    move_target, move_result, iterations, result, calls, merge >>

NextRange == ApplyInRange

SpecRange == InitRange /\ [][NextRange]_vars

---------------------------------------------------------------------------
(* fix_up_corridor on its own: any corridor, capacity and visited trace.   *)

MergePolys == {1, 2, 3}

InitMerge ==
    /\ pc = "merge_input"
    /\ world = "any"
    /\ tile_map = {}
    /\ fresh = TRUE
    /\ registered = {}
    /\ input_start = Origin
    /\ input_end = Origin
    /\ start_pos = Origin
    /\ end_pos = Origin
    /\ start_poly = NullPoly
    /\ end_poly = NullPoly
    /\ corridor_status = {}
    /\ polygons = << >>
    /\ capacity = 0
    /\ smooth_path = << >>
    /\ iter_pos = Origin
    /\ target_pos = Origin
    /\ steer_points = << >>
    /\ steer = None
    /\ move_target = Origin
    /\ move_result = Origin
    /\ iterations = 0
    /\ result = NoResult
    /\ calls = << >>
    /\ handles = << >>
    /\ \E p \in SeqsUpTo(MergePolys, MaxMergeLen), v \in SeqsUpTo(MergePolys, MaxMergeLen) :
         \E c \in Len(p)..MaxMergeLen :
            merge = [path |-> p, cap |-> c, visited |-> v, status |-> "input", out |-> << >>]

ApplyMerge ==
    /\ pc = "merge_input"
    /\ \E m \in fix_up_corridor(merge.path, merge.cap, merge.visited) :
         merge' = [merge EXCEPT !.status = m.status, !.out = m.path]
    /\ pc' = "merged"
    /\ UNCHANGED << handles, world, tile_map, fresh, registered, input_start, input_end, start_pos,
                    end_pos, start_poly, end_poly, corridor_status, polygons, capacity,
                    smooth_path, iter_pos, target_pos, steer_points, steer,
                    move_target, move_result, iterations, result, calls >>

NextMerge == ApplyMerge

SpecMerge == InitMerge /\ [][NextMerge]_vars

---------------------------------------------------------------------------
(* The corridor merge.                                                     *)

Reverse(s) == [k \in 1..Len(s) |-> s[Len(s) + 1 - k]]

\* the visited trace from source index j on: visited[j..]
visited_from(s, j) == SubSeq(s, j + 1, Len(s))

\* a fix_up_corridor has been applied to a corridor and a visited trace that
\* share a polygon reference
MergedWithCommonRef ==
    /\ merge.status \notin {"none", "input"}
    /\ find_common(merge.path, merge.visited) # None

\* C1: for every corridor and visited trace sharing a reference, with (i, j)
\* the match find_common returns, required = len(visited) - j,
\* orig = min(i + 1, len(path)) and size = len(path) - orig clipped to
\* capacity - required, the corridor after the merge is exactly
\* reverse(visited[j..]) followed by the old path[orig .. orig + size).
C1_MergeIsReversedTailThenClippedPath ==
    MergedWithCommonRef =>
        LET m        == find_common(merge.path, merge.visited)
            required == Len(merge.visited) - m.j
            orig     == Min(m.i + 1, Len(merge.path))
            size     == Min(Len(merge.path) - orig, merge.cap - required)
        IN /\ merge.status = "ok"
           /\ merge.out = Reverse(visited_from(merge.visited, m.j))
                             \o SubSeq(merge.path, orig + 1, orig + size)

\* C2: for any corridor and any visited trace sharing a reference with it,
\* however long the trace is relative to the corridor's capacity, the merge
\* is well defined (it completes with a corridor) and the corridor it
\* produces is no longer than the capacity.
C2_MergeStaysWithinCapacity ==
    MergedWithCommonRef =>
        /\ merge.status = "ok"
        /\ Len(merge.out) <= merge.cap

\* C3: when the corridor and the visited trace share no polygon reference,
\* the merge is reported as the error CorridorMergeInvariantViolation, which
\* find_smooth_path and find_path return to their caller.
C3_NoCommonRefIsANamedError ==
    (merge.status \notin {"none", "input"}
        /\ find_common(merge.path, merge.visited) = None)
    => (pc = "error" /\ result = Err("CorridorMergeInvariantViolation", {}))

---------------------------------------------------------------------------
(* The smoothing loop.                                                     *)

LastCall == calls[Len(calls)]

\* C4: find_smooth_path enters its loop body at most max_smooth_path times,
\* whatever the engine answers: every iteration entered adds one waypoint to
\* an output that never exceeds max_smooth_path, and when find_smooth_path
\* returns its waypoints the corridor is empty, the output is at capacity,
\* or the last thing it did was a steer query that gave no target.
C4_SmoothingEndsWithinMaxSmoothPath ==
    /\ iterations <= max_smooth_path
    /\ Len(smooth_path) <= max_smooth_path
    /\ pc = "loop" => Len(smooth_path) = iterations + 1
    /\ pc \in {"move", "height"} =>
          /\ Len(smooth_path) = iterations
          /\ iterations < max_smooth_path
    /\ pc = "done" =>
          \/ polygons = << >>
          \/ Len(smooth_path) = max_smooth_path
          \/ /\ LastCall.op = "find_straight_path"
             /\ ~LastCall.failed
             /\ steer = None

\* the loop has run until the output was full
C4_Witness_StoppedAtCapacity ==
    /\ pc = "done"
    /\ polygons # << >>
    /\ Len(smooth_path) = max_smooth_path
    /\ iterations = max_smooth_path - 1
    /\ LastCall.op = "get_poly_height"

---------------------------------------------------------------------------
(* Tile registration.                                                      *)

\* C5: over any sequence of find_path requests on one Navigator, no
\* NavMesh::add_tile call is issued for a tile whose id tile_map holds at the
\* moment of the call.
C5_NoRegistrationOfResidentTile ==
    \A k \in DOMAIN calls : calls[k].op = "add_tile" => ~calls[k].resident

\* a later request whose two tiles were both resident: nothing was registered
\* again and the request went on to its first query
C5_Witness_OverlappingRequestSkipsBoth ==
    /\ ~fresh
    /\ tile_map # {}
    /\ pc = "nearest_start"
    /\ calls = << >>

---------------------------------------------------------------------------
(* Step sizing and the steer target.                                       *)

\* the flags mark the path's end
marks_end(flags) == BitAnd(flags, END, 8) = END
\* the flags mark an off-mesh connection
marks_off_mesh(flags) == BitAnd(flags, OFFMESH_CONNECTION, 8) = OFFMESH_CONNECTION

\* C6: in every iteration, with len the distance from the current position
\* to the steer target: if the target's flags mark the path's end or an
\* off-mesh connection and len < smooth_step_size, the move target handed to
\* move_along_surface is the steer target itself; otherwise it lies
\* smooth_step_size from the current position towards the steer target.
C6_StepIsFullWhenEndIsNear ==
    pc = "move" =>
        LET delta == vsub(steer.pos, iter_pos)
            len   == sqrt(dot(delta, delta))
        IN IF (marks_end(steer.flags) \/ marks_off_mesh(steer.flags))
              /\ len < smooth_step_size
           THEN move_target = steer.pos
           ELSE /\ len > 0
                /\ move_target =
                      [x |-> iter_pos.x + (delta.x * smooth_step_size) \div len,
                       y |-> iter_pos.y + (delta.y * smooth_step_size) \div len,
                       z |-> iter_pos.z + (delta.z * smooth_step_size) \div len]

\* the candidate is within the steer radius and height of the current
\* position and is no off-mesh connection
passed_over(p) ==
    /\ in_range(p.pos, iter_pos, steer_target_radius, steer_target_height)
    /\ ~marks_off_mesh(p.flags)

\* C7: get_steer_target reads at most max_steer_points candidates in order
\* and returns the first that is an off-mesh connection or out of range of
\* the current position (with its height replaced by the current one); it
\* returns no target exactly when every candidate is in range and not
\* off-mesh, and then find_path returns the waypoints emitted so far.
C7_SteerTargetIsFirstSelected ==
    /\ Len(steer_points) <= max_steer_points
    /\ pc = "move" =>
          /\ steer # None
          /\ steer_points # << >>
          /\ \A k \in 1..(Len(steer_points) - 1) : passed_over(steer_points[k])
          /\ ~passed_over(steer_points[Len(steer_points)])
          /\ steer.pos = [steer_points[Len(steer_points)].pos EXCEPT !.z = iter_pos.z]
          /\ steer.flags = steer_points[Len(steer_points)].flags
          /\ steer.poly = steer_points[Len(steer_points)].poly
    /\ (steer = None /\ steer_points # << >>) =>
          /\ \A k \in DOMAIN steer_points : passed_over(steer_points[k])
          /\ pc = "done"
          /\ result = Ok(smooth_path)
    /\ (steer_points # << >> /\ \A k \in DOMAIN steer_points : passed_over(steer_points[k]))
          => steer = None

\* a request that selected a target in one iteration and, in a later one,
\* read candidates that were all in range and not off-mesh and found none
C7_Witness_SelectedThenNone ==
    /\ pc = "done"
    /\ steer = None
    /\ steer_points # << >>
    /\ iterations >= 2
    /\ Len(smooth_path) = iterations

---------------------------------------------------------------------------
(* Scenarios.                                                              *)

near(a, b) == in_range(a, b, steer_target_radius, steer_target_height)

\* C8: on the single-polygon mesh, find_path from (0,0,0) to (1,0,0), with
\* straight paths answering the start flagged START and the end flagged END:
\* the initial corridor has one entry, and the waypoints returned are exactly
\* two, the first near the start and the second near the end.
C8_SinglePolygonGivesTwoWaypoints ==
    (/\ world = "single_poly"
     /\ input_start = from_xyz(0, 0, 0)
     /\ input_end = from_xyz(10, 0, 0))
    => /\ pc = "boundary_start" => Len(polygons) = 1
       /\ pc = "done" =>
             /\ result.ok
             /\ Len(result.path) = 2
             /\ near(result.path[1], input_start)
             /\ near(result.path[2], input_end)

start_tile == world_to_trinity(input_start.x, input_start.y)
end_tile == world_to_trinity(input_end.x, input_end.y)

\* find_path has returned Ok on a Navigator that held no tile when the
\* request began, for a start and an end in different tile coordinates
FreshSuccessAcrossTiles ==
    /\ fresh
    /\ pc = "done"
    /\ result.ok
    /\ start_tile # end_tile

\* two ids are resident, each registered by this request, and every
\* registration precedes every nearest-polygon query
TwoTilesBeforeQueries ==
    /\ Cardinality(tile_map) = 2
    /\ Cardinality({ k \in DOMAIN calls :
                        calls[k].op = "add_tile" /\ ~calls[k].failed }) = 2
    /\ \A a, q \in DOMAIN calls :
          (calls[a].op = "add_tile" /\ calls[q].op = "find_nearest_poly") => a < q

\* the four tile coordinates fit the 16 bits packed_tile_id gives each
TilesFitPackedId ==
    \A c \in { start_tile[1], start_tile[2], end_tile[1], end_tile[2] } : c < 65536

\* C9, as stated: on a fresh Navigator, when start and end map to different
\* tile coordinates and find_path succeeds, exactly two distinct tile ids are
\* resident afterwards, both registered before the first find_nearest_poly.
C9_DifferentTilesGiveTwoIds ==
    FreshSuccessAcrossTiles => TwoTilesBeforeQueries

\* C9, amended: the same, for tile coordinates below 65536.
C9_DifferentTilesBelow65536GiveTwoIds ==
    (FreshSuccessAcrossTiles /\ TilesFitPackedId) => TwoTilesBeforeQueries

C9_Witness_TwoTilesResident ==
    /\ FreshSuccessAcrossTiles
    /\ TilesFitPackedId
    /\ tile_map = { packed_tile_id(32, 32), packed_tile_id(31, 32) }

\* the corridor query of this request answered PARTIAL_RESULT without FAILURE
PartialCorridor ==
    /\ "PARTIAL_RESULT" \in corridor_status
    /\ "FAILURE" \notin corridor_status

\* C10, as stated: when the corridor query answers PARTIAL_RESULT without
\* FAILURE, find_path does not return an error, and what it returns is a
\* non-empty waypoint sequence.
C10_PartialCorridorNeverEndsInError ==
    PartialCorridor =>
        /\ pc # "error"
        /\ pc = "done" => (result.ok /\ result.path # << >>)

\* C10, amended: the partial status is not itself an error.  find_path goes
\* on to smooth over the corridor the query returned; an error it returns
\* comes from a later engine call, never from the corridor query; and when it
\* returns Ok the waypoint sequence is non-empty.
C10_PartialCorridorIsNotAnError ==
    PartialCorridor =>
        /\ pc \in {"boundary_start", "boundary_end", "loop", "move", "height",
                   "done", "error", "panic"}
        /\ polygons # << >>
        /\ capacity = max_path
        /\ pc = "error" =>
              /\ result.err \in {"ClosestPointOnPolyBoundaryFailure",
                                 "FindStraightPathFailure",
                                 "MoveAlongSurfaceFailure"}
              /\ LastCall.failed
              /\ LastCall.op # "find_path"
        /\ pc = "done" => (result.ok /\ result.path # << >>)

C10_Witness_PartialCorridorSmoothed ==
    /\ PartialCorridor
    /\ pc = "done"
    /\ result.ok
    /\ Len(result.path) >= 2

---------------------------------------------------------------------------
(* The waypoint's height.                                                  *)

\* the heights get_poly_height can answer with in this world
EngineHeights ==
    { r.height : r \in { h \in HeightResponses(world) : ~is_failed(h.status) } }

\* C11: the step after a move never aborts.  When get_poly_height fails, the
\* waypoint emitted has vertical coordinate 0.0 + 0.5; when it succeeds with
\* height h, h + 0.5; either way the waypoint keeps the horizontal position
\* the move returned, is appended to the output, and the loop goes on.
C11_HeightFailureFallsBackToZero ==
    [][pc = "height" =>
          /\ pc' = "loop"
          /\ result' = result
          /\ LastCall'.op = "get_poly_height"
          /\ iter_pos'.x = move_result.x
          /\ iter_pos'.y = move_result.y
          /\ IF LastCall'.failed
             THEN iter_pos'.z = 0 + 5
             ELSE \E h \in EngineHeights : iter_pos'.z = h + 5
          /\ smooth_path' = Append(smooth_path, iter_pos')]_vars

\* a height lookup failed, the waypoint was emitted at 0.5 and the loop is
\* about to run again
C11_Witness_DegradedWaypoint ==
    /\ pc = "loop"
    /\ LastCall.op = "get_poly_height"
    /\ LastCall.failed
    /\ iter_pos.z = 5
    /\ smooth_path[Len(smooth_path)] = iter_pos
    /\ Len(smooth_path) >= 2

---------------------------------------------------------------------------
(* Failure propagation.                                                    *)

\* the DivertError each primitive's wrapper returns on a failed status
ErrorOf(op) ==
    CASE op = "add_tile" -> "Failure"
      [] op = "find_nearest_poly" -> "FindNearestPolyFailure"
      [] op = "find_path" -> "FindPathFailure"
      [] op = "closest_point_on_poly_boundary" -> "ClosestPointOnPolyBoundaryFailure"
      [] op = "find_straight_path" -> "FindStraightPathFailure"
      [] op = "move_along_surface" -> "MoveAlongSurfaceFailure"
      [] OTHER -> "none"

\* the engine primitives whose failure find_path propagates
PropagatingOps ==
    {"add_tile", "find_nearest_poly", "find_path", "closest_point_on_poly_boundary",
     "find_straight_path", "move_along_surface"}

\* C12: apart from get_poly_height, a failure status from an engine primitive
\* ends the request at once with that primitive's error: the failed call is
\* the last call of the request (no retry, no further call), find_path has
\* returned Err carrying the failure status, and no waypoints are returned.
C12_FirstFailureIsReturnedAtOnce ==
    \A k \in DOMAIN calls :
        (calls[k].failed /\ calls[k].op \in PropagatingOps) =>
            /\ k = Len(calls)
            /\ pc = "error"
            /\ ~result.ok
            /\ result.err = ErrorOf(calls[k].op)
            /\ is_failed(result.status)
            /\ result.path = << >>

\* a move failed after waypoints had been emitted: none of them is returned
C12_Witness_MoveFailsMidway ==
    /\ pc = "error"
    /\ LastCall.op = "move_along_surface"
    /\ LastCall.failed
    /\ Len(smooth_path) >= 2
    /\ result = Err("MoveAlongSurfaceFailure", FailStatus)

---------------------------------------------------------------------------
(* Tile loading.                                                           *)

\* C13: when read_tile_data cannot produce the bytes of a tile that is not
\* resident, find_path returns the error TileLoadFailure to its caller and
\* the tile is not recorded as resident (on a Navigator that held no tile,
\* a failed first load leaves tile_map empty).
C13_LoaderFailureIsTileLoadFailure ==
    (calls # << >> /\ LastCall.op = "read_tile_data" /\ LastCall.failed) =>
        /\ ~LastCall.resident
        /\ pc = "error"
        /\ ~result.ok
        /\ result.err = "TileLoadFailure"
        /\ (fresh /\ Len(calls) = 1) => tile_map = {}

\* the engine has just refused a tile: NavMesh::add_tile answered a failure
TileRefused ==
    /\ calls # << >>
    /\ LastCall.op = "add_tile"
    /\ LastCall.failed

\* the tile a refusal was about: the start tile unless that one is resident
RefusedTile == IF has_tile(tile_map, start_tile[1], start_tile[2]) THEN end_tile ELSE start_tile

\* C14: when NavMesh::add_tile refuses a tile, find_path returns an error
\* and tile_map is left as it was, so the refused tile is not resident; and a
\* request that finds its tile not resident issues the load for it, so the
\* next request for that coordinate tries again.
C14_RefusedTileIsNotRecorded ==
    /\ [](TileRefused =>
            /\ pc = "error"
            /\ result = Err("Failure", FailStatus)
            /\ ~has_tile(tile_map, RefusedTile[1], RefusedTile[2]))
    /\ [][TileRefused' /\ ~TileRefused => tile_map' = tile_map]_vars
    /\ [][(pc = "start_tile" /\ ~has_tile(tile_map, start_tile[1], start_tile[2]))
            => (calls' # << >> /\ calls'[1].op = "read_tile_data")]_vars
    /\ [][(pc = "end_tile" /\ ~has_tile(tile_map, end_tile[1], end_tile[2]))
            => (calls' # calls /\ LastCall'.op \in {"read_tile_data", "add_tile"})]_vars

\* the start tile was registered and the end tile refused: only the start
\* tile's id is resident
C14_Witness_EndTileRefused ==
    /\ TileRefused
    /\ Len(calls) = 4
    /\ fresh
    /\ tile_map = { packed_tile_id(start_tile[1], start_tile[2]) }
    /\ start_tile # end_tile

\* C15: the resident-tile set only grows: no step of any find_path call,
\* successful or failing, removes an id from tile_map, so a has_tile that
\* is true stays true.
C15_ResidentTilesOnlyGrow ==
    [][tile_map \subseteq tile_map']_vars

\* a later request has failed and the two tiles registered before it are
\* still resident
C15_Witness_ResidentAfterFailure ==
    /\ ~fresh
    /\ pc = "error"
    /\ Cardinality(tile_map) = 2
    /\ registered = tile_map

---------------------------------------------------------------------------
(* The owning wrappers of lib.rs: NavMesh, NavMeshQuery, QueryFilter.      *)
(* One step per constructor call and per drop of a constructed wrapper.    *)

\* dtNavMesh_alloc, dtNavMeshQuery_alloc, dtQueryFilter_alloc: a handle or null
AllocResponses == {"handle", "null"}

\* dtNavMesh_init, dtNavMeshQuery_init
InitResponses == {OkStatus, FailStatus}

HandlesFrame ==
    UNCHANGED << pc, world, tile_map, fresh, registered, input_start, input_end,
                 start_pos, end_pos, start_poly, end_poly, corridor_status, polygons,
                 capacity, smooth_path, iter_pos, target_pos, steer_points, steer,
                 move_target, move_result, iterations, calls, merge >>

InitHandles ==
    /\ pc = "handles"
    /\ world = "any"
    /\ tile_map = {}
    /\ fresh = TRUE
    /\ registered = {}
    /\ input_start = Origin
    /\ input_end = Origin
    /\ start_pos = Origin
    /\ end_pos = Origin
    /\ start_poly = NullPoly
    /\ end_poly = NullPoly
    /\ corridor_status = {}
    /\ polygons = << >>
    /\ capacity = 0
    /\ smooth_path = << >>
    /\ iter_pos = Origin
    /\ target_pos = Origin
    /\ steer_points = << >>
    /\ steer = None
    /\ move_target = Origin
    /\ move_result = Origin
    /\ iterations = 0
    /\ result = NoResult
    /\ calls = << >>
    /\ merge = NoMerge
    /\ handles = << >>

\* a constructor that allocates and then initialises (NavMesh::new,
\* NavMeshQuery::new): null gives Err(NullPtr); a failed init gives
\* Err(Failure(status)) and the pointer, a local, goes out of scope
new_with_init(kind) ==
    \E a \in AllocResponses :
        IF a = "null"
        THEN /\ result' = Err("NullPtr", {})
             /\ UNCHANGED handles
        ELSE /\ Len(handles) < MaxHandles
             /\ \E st \in InitResponses :
                   IF is_failed(st)
                   THEN /\ result' = Err("Failure", st)
                        /\ handles' = Append(handles, Handle(kind, "init_failed", 0))
                   ELSE /\ result' = NoResult
                        /\ handles' = Append(handles, Handle(kind, "owned", 0))

NewNavMesh ==
    /\ pc = "handles"
    /\ new_with_init("NavMesh")
    /\ HandlesFrame

\* NavMeshQuery::new(&nav_mesh, ..) needs a constructed NavMesh
NewNavMeshQuery ==
    /\ pc = "handles"
    /\ \E h \in DOMAIN handles :
          handles[h].kind = "NavMesh" /\ handles[h].state = "owned"
    /\ new_with_init("NavMeshQuery")
    /\ HandlesFrame

\* QueryFilter::new only allocates
NewQueryFilter ==
    /\ pc = "handles"
    /\ \E a \in AllocResponses :
          IF a = "null"
          THEN /\ result' = Err("NullPtr", {})
               /\ UNCHANGED handles
          ELSE /\ Len(handles) < MaxHandles
               /\ result' = NoResult
               /\ handles' = Append(handles, Handle("QueryFilter", "owned", 0))
    /\ HandlesFrame

\* Drop::drop of a constructed wrapper: one call of the engine's free
DropWrapper ==
    /\ pc = "handles"
    /\ \E h \in DOMAIN handles :
          /\ handles[h].state = "owned"
          /\ handles' = [handles EXCEPT ![h] =
                            Handle(@.kind, "dropped", @.frees + 1)]
    /\ result' = NoResult
    /\ HandlesFrame

NextHandles ==
    \/ NewNavMesh
    \/ NewNavMeshQuery
    \/ NewQueryFilter
    \/ DropWrapper

SpecHandles == InitHandles /\ [][NextHandles]_vars

\* C16: every handle an allocation call returned is released exactly once on
\* every exit path: never more than once, once when its wrapper has been
\* dropped, and once when the constructor returned an error because the
\* initialisation failed after the allocation.
C16_HandlesReleasedExactlyOnce ==
    \A h \in DOMAIN handles :
        /\ handles[h].frees <= 1
        /\ handles[h].state = "owned" => handles[h].frees = 0
        /\ handles[h].state = "dropped" => handles[h].frees = 1
        /\ handles[h].state = "init_failed" => handles[h].frees = 1

---------------------------------------------------------------------------
(* find_common.                                                            *)

\* the pairs of 0-based indices at which path and visited hold the same ref
Matches(path, visited) ==
    { ij \in (0..(Len(path) - 1)) \X (0..(Len(visited) - 1)) :
         path[ij[1] + 1] = visited[ij[2] + 1] }

\* a corridor and a visited trace are at hand
MergeInputs == merge.status # "none"

\* C17, as stated: find_common(path, visited) returns a pair (i, j) with
\* path[i] = visited[j] such that no other matching pair has a larger i and
\* none has a larger j; it returns no pair exactly when there is no match.
C17_FindCommonIsLastInBoth ==
    MergeInputs =>
        LET m == find_common(merge.path, merge.visited)
        IN IF m = None
           THEN Matches(merge.path, merge.visited) = {}
           ELSE /\ << m.i, m.j >> \in Matches(merge.path, merge.visited)
                /\ \A ij \in Matches(merge.path, merge.visited) :
                      ij[1] <= m.i /\ ij[2] <= m.j

\* C17, amended: the pair returned has the largest i that has any match,
\* and the largest j among the matches of that i; it returns no pair
\* exactly when there is no match.
C17_FindCommonIsLastInPathThenVisited ==
    MergeInputs =>
        LET m == find_common(merge.path, merge.visited)
        IN IF m = None
           THEN Matches(merge.path, merge.visited) = {}
           ELSE /\ << m.i, m.j >> \in Matches(merge.path, merge.visited)
                /\ \A ij \in Matches(merge.path, merge.visited) :
                      /\ ij[1] <= m.i
                      /\ ij[1] = m.i => ij[2] <= m.j

\* a merge was applied where the last match in the path is not the last in
\* the visited trace
C17_Witness_CrossedMatches ==
    /\ pc = "merged"
    /\ merge.path = << 1, 2 >>
    /\ merge.visited = << 2, 1 >>
    /\ find_common(merge.path, merge.visited) = [i |-> 1, j |-> 0]
    /\ merge.status = "ok"

---------------------------------------------------------------------------
(* The first waypoint.                                                     *)

BoundaryOp == "closest_point_on_poly_boundary"

\* the first boundary query of the request: the one about the start
StartBoundaryCall ==
    calls[CHOOSE k \in DOMAIN calls :
             /\ calls[k].op = BoundaryOp
             /\ \A l \in 1..(k - 1) : calls[l].op # BoundaryOp]

\* the points the engine can answer a boundary query about `position` with
BoundaryAnswers(position) ==
    { r.point : r \in { b \in BoundaryResponses(world, position) : ~is_failed(b.status) } }

\* the points find_nearest_poly can return for the caller's start
SnappedStarts ==
    { r.point : r \in { n \in NearestResponses(world, input_start) : ~is_failed(n.status) } }

\* no steer query and no move was issued before the first waypoint existed,
\* and whatever find_path returns starts with that waypoint
FirstWaypointComesFirst ==
    /\ smooth_path = << >> =>
          \A k \in DOMAIN calls :
              calls[k].op \notin {"find_straight_path", "move_along_surface"}
    /\ (pc = "done" /\ result.ok) =>
          (result.path # << >> /\ result.path[1] = smooth_path[1])

---------------------------------------------------------------------------
(* A start at the end, or next to it.                                      *)

\* the caller's start is the end, or within steer_target_radius of it, on
\* the one polygon of the single-polygon mesh
StartIsAtTheEnd ==
    /\ world = "single_poly"
    /\ input_start.z = input_end.z
    /\ (input_end.x - input_start.x) * (input_end.x - input_start.x)
         + (input_end.y - input_start.y) * (input_end.y - input_start.y)
       < steer_target_radius * steer_target_radius

\* C19: when the start equals the end, or lies within steer_target_radius
\* of it on the same polygon, find_path raises no error and performs no
\* move_along_surface call, and what it returns is Ok with a short valid
\* path: the single waypoint at the start.
C19_StartAtEndGivesShortPathWithoutMove ==
    StartIsAtTheEnd =>
        /\ pc \notin {"error", "panic", "move", "height"}
        /\ \A k \in DOMAIN calls : calls[k].op # "move_along_surface"
        /\ pc = "done" =>
              /\ result.ok
              /\ result.path = << input_start >>
              /\ LastCall.op = "find_straight_path"

\* find_path has returned for a start 0.2 from the end
C19_Witness_StartNextToEnd ==
    /\ StartIsAtTheEnd
    /\ input_start # input_end
    /\ pc = "done"
    /\ result.ok

\* find_path has returned for a start that is the end
C19_Witness_StartIsEnd ==
    /\ StartIsAtTheEnd
    /\ input_start = input_end
    /\ pc = "done"
    /\ result.ok

---------------------------------------------------------------------------
(* A position with no polygon nearby.                                      *)

\* C20: when the nearest-polygon query succeeds with a null polygon
\* reference for the start or for the end, find_path fails with
\* NoNearbyPolygon and goes on neither to the corridor query nor to
\* smoothing: the end is only looked up with a start polygon in hand, the
\* corridor is only asked for with both, and no error that follows a
\* successful nearest-polygon query is anything but NoNearbyPolygon.
C20_NullPolygonIsNoNearbyPolygon ==
    /\ pc = "nearest_end" => start_poly # NullPoly
    /\ pc = "corridor" => (start_poly # NullPoly /\ end_poly # NullPoly)
    /\ (pc = "error" /\ LastCall.op = "find_nearest_poly" /\ ~LastCall.failed)
          => result.err = "NoNearbyPolygon"

---------------------------------------------------------------------------
(* The waypoint sequence during smoothing.                                 *)

\* find_smooth_path is inside its loop: at the test, between the steer
\* query and the move, or between the move and the height query
InLoop == pc \in {"loop", "move", "height"}

\* path is old with exactly one waypoint added at the end
appends_one(old, path) ==
    /\ Len(path) = Len(old) + 1
    /\ \A k \in DOMAIN old : path[k] = old[k]

\* C21: the waypoint sequence of find_smooth_path is bounded and
\* append-only: in the loop it never holds more than max_smooth_path
\* waypoints; no step of an iteration before its last touches it, and the
\* last step of an iteration adds exactly one waypoint at the end and keeps
\* the earlier ones; a step that ends the loop leaves it as it is.
C21_WaypointsAreBoundedAndAppendOnly ==
    /\ [](InLoop => (smooth_path # << >> /\ Len(smooth_path) <= max_smooth_path))
    /\ [][InLoop =>
            IF pc = "height" /\ pc' = "loop"
            THEN appends_one(smooth_path, smooth_path')
            ELSE /\ smooth_path' = smooth_path
                 /\ pc' \in {"move", "height", "done", "error", "panic"}]_vars

\* the loop test is reached with the output full after two appends
C21_Witness_FullAfterAppends ==
    /\ pc = "loop"
    /\ Len(smooth_path) = max_smooth_path
    /\ iterations = max_smooth_path - 1
    /\ smooth_path[1] # smooth_path[2]

---------------------------------------------------------------------------
(* The packed tile id as a key.                                            *)

\* (id >> 16, id & 0xFFFF)
unpack(id) == << id.hi, id.lo >>

TilePairs == TileXs \X TileYs

\* both coordinates fit 16 bits
below_65536(t) == t[1] < 65536 /\ t[2] < 65536

\* the coordinates of the tiles the engine was given and accepted
Loaded ==
    { calls[k].tile : k \in { n \in DOMAIN calls :
                                 calls[n].op = "add_tile" /\ ~calls[n].failed } }

\* C22: for all tile coordinates tx, ty < 65536, unpacking
\* packed_tile_id(tx, ty) as (id >> 16, id & 0xFFFF) gives back (tx, ty); two
\* different pairs in that range never share an id; and, the loaded tiles
\* being in that range, has_tile reports a tile of that range resident
\* exactly when that tile itself was loaded.
C22_PackedTileIdIsLosslessBelow65536 ==
    /\ \A t \in TilePairs :
          below_65536(t) => unpack(packed_tile_id(t[1], t[2])) = t
    /\ \A t, u \in TilePairs :
          (below_65536(t) /\ below_65536(u) /\ t # u)
             => packed_tile_id(t[1], t[2]) # packed_tile_id(u[1], u[2])
    /\ (\A l \in Loaded : below_65536(l)) =>
          \A t \in TilePairs :
              below_65536(t) => (has_tile(tile_map, t[1], t[2]) <=> t \in Loaded)

\* two tiles of the range are resident, one with both coordinates 65535,
\* and tile (0, 256) is not reported resident beside tile (1, 0)
C22_Witness_TwoTilesOfTheRange ==
    /\ pc = "tiles"
    /\ Loaded = { << 1, 0 >>, << 65535, 65535 >> }
    /\ Cardinality(tile_map) = 2
    /\ ~has_tile(tile_map, 0, 256)

---------------------------------------------------------------------------
(* in_range as a relation.                                                 *)

\* the squared distance of a and b in the horizontal plane (x, y)
horizontal_sq(a, b) == (b.x - a.x) * (b.x - a.x) + (b.y - a.y) * (b.y - a.y)

\* the absolute difference of the heights (z) of a and b
vertical(a, b) == IF b.z >= a.z THEN b.z - a.z ELSE a.z - b.z

\* C23: in_range(a, b, r, h) = in_range(b, a, r, h) for all positions a, b,
\* radius r and height h, and in_range(a, b, r, h) is true exactly when the
\* horizontal squared distance of a and b is < r * r and the absolute
\* difference of their heights is < h.
C23_InRangeIsSymmetric ==
    pc = "ranged" =>
        /\ steer.forth = steer.back
        /\ steer.forth <=>
              (/\ horizontal_sq(iter_pos, target_pos) < steer.radius * steer.radius
               /\ vertical(iter_pos, target_pos) < steer.height)

\* in_range was applied to two positions in range of each other, the
\* destination below the source and off it in the plane
C23_Witness_InRangeBelow ==
    /\ pc = "ranged"
    /\ steer.forth
    /\ target_pos.z < iter_pos.z
    /\ horizontal_sq(iter_pos, target_pos) > 0

---------------------------------------------------------------------------
(* QueryFilter's flag words.  The filter is handles[1]: its handle, with   *)
(* the two u16 words the engine keeps behind it; calls logs the setters    *)
(* called on it, with the value passed.                                    *)

FilterFlags == {0, 1, 2, 65535}

\* the engine's filter object: two flag words behind the handle
dtQueryFilter(include, exclude) ==
    [kind |-> "QueryFilter", state |-> "owned", frees |-> 0,
     include |-> include, exclude |-> exclude]

dtQueryFilter_setIncludeFlags(filter, include_flags) ==
    [filter EXCEPT !.include = include_flags]

dtQueryFilter_getIncludeFlags(filter) == filter.include

dtQueryFilter_setExcludeFlags(filter, exclude_flags) ==
    [filter EXCEPT !.exclude = exclude_flags]

dtQueryFilter_getExcludeFlags(filter) == filter.exclude

\* QueryFilter::set_include_flags
set_include_flags(filter, include_flags) ==
    dtQueryFilter_setIncludeFlags(filter, include_flags)

\* QueryFilter::get_include_flags
get_include_flags(filter) == dtQueryFilter_getIncludeFlags(filter)

\* a setter that forwards to the engine's setter of the other word
set_exclude_flags_as_include(filter, exclude_flags) ==
    dtQueryFilter_setIncludeFlags(filter, exclude_flags)

\* QueryFilter::set_exclude_flags
set_exclude_flags(filter, exclude_flags) ==
    dtQueryFilter_setExcludeFlags(filter, exclude_flags)

\* QueryFilter::get_exclude_flags
get_exclude_flags(filter) == dtQueryFilter_getExcludeFlags(filter)

SetCall(op, value) == [op |-> op, failed |-> FALSE, resident |-> FALSE, value |-> value]

\* after QueryFilter::new returned Ok, the words as the engine left them
InitFilter ==
    /\ pc = "filter"
    /\ world = "any"
    /\ tile_map = {}
    /\ fresh = TRUE
    /\ registered = {}
    /\ input_start = Origin
    /\ input_end = Origin
    /\ start_pos = Origin
    /\ end_pos = Origin
    /\ start_poly = NullPoly
    /\ end_poly = NullPoly
    /\ corridor_status = {}
    /\ polygons = << >>
    /\ capacity = 0
    /\ smooth_path = << >>
    /\ iter_pos = Origin
    /\ target_pos = Origin
    /\ steer_points = << >>
    /\ steer = None
    /\ move_target = Origin
    /\ move_result = Origin
    /\ iterations = 0
    /\ result = NoResult
    /\ calls = << >>
    /\ merge = NoMerge
    /\ \E i \in FilterFlags, e \in FilterFlags : handles = << dtQueryFilter(i, e) >>

FilterFrame ==
    UNCHANGED << pc, world, tile_map, fresh, registered, input_start, input_end,
                 start_pos, end_pos, start_poly, end_poly, corridor_status, polygons,
                 capacity, smooth_path, iter_pos, target_pos, steer_points, steer,
                 move_target, move_result, iterations, result, merge >>

SetIncludeFlags(include_flags) ==
    /\ pc = "filter"
    /\ Len(calls) < MaxSets
    /\ handles' = << set_include_flags(handles[1], include_flags) >>
    /\ calls' = Append(calls, SetCall("set_include_flags", include_flags))
    /\ FilterFrame

SetExcludeFlags(exclude_flags) ==
    /\ pc = "filter"
    /\ Len(calls) < MaxSets
    /\ handles' = << set_exclude_flags(handles[1], exclude_flags) >>
    /\ calls' = Append(calls, SetCall("set_exclude_flags", exclude_flags))
    /\ FilterFrame

NextFilter ==
    \/ \E v \in FilterFlags : SetIncludeFlags(v)
    \/ \E v \in FilterFlags : SetExcludeFlags(v)

SpecFilter == InitFilter /\ [][NextFilter]_vars

\* the indices of the calls of setter op
SetsOf(op) == { k \in DOMAIN calls : calls[k].op = op }

\* the value passed to the most recent call of setter op
LastSet(op) == calls[CHOOSE k \in SetsOf(op) : \A l \in SetsOf(op) : l <= k].value

\* C24: after any sequence of set calls on a QueryFilter, get_include_flags
\* returns the value passed to the most recent set_include_flags and
\* get_exclude_flags the value passed to the most recent set_exclude_flags;
\* a call of one setter leaves what the other word's getter returns as it was.
C24_GettersReturnLastSetValue ==
    /\ [](SetsOf("set_include_flags") # {} =>
             get_include_flags(handles[1]) = LastSet("set_include_flags"))
    /\ [](SetsOf("set_exclude_flags") # {} =>
             get_exclude_flags(handles[1]) = LastSet("set_exclude_flags"))
    /\ [][LastCall'.op = "set_include_flags" =>
             get_exclude_flags(handles'[1]) = get_exclude_flags(handles[1])]_vars
    /\ [][LastCall'.op = "set_exclude_flags" =>
             get_include_flags(handles'[1]) = get_include_flags(handles[1])]_vars

\* both words were set, the include word last, to values that differ from
\* each other and from an earlier value of the include word
C24_Witness_BothWordsSet ==
    /\ pc = "filter"
    /\ Len(calls) = 3
    /\ calls[1].op = "set_include_flags"
    /\ calls[2].op = "set_exclude_flags"
    /\ calls[3].op = "set_include_flags"
    /\ calls[1].value # calls[3].value
    /\ calls[2].value # calls[3].value
    /\ get_exclude_flags(handles[1]) = calls[2].value

---------------------------------------------------------------------------
(* The corridor after a merge.                                             *)

\* the last, most recently visited, entry of the visited trace
last_visited == merge.visited[Len(merge.visited)]

\* C25: after every fix_up_corridor that returns, the corridor is non-empty
\* and its first entry is the last entry of the visited trace; the corridor
\* is therefore non-empty at every step of the loop, polygons[0] can be read
\* in every iteration, and when find_smooth_path returns its waypoints the
\* corridor is not empty: the loop ended for lack of a steer target or
\* because the output was full.
C25_MergedCorridorStartsAtLastVisited ==
    /\ merge.status = "ok" =>
          /\ merge.visited # << >>
          /\ merge.out # << >>
          /\ merge.out[1] = last_visited
    /\ pc = "height" => (merge.status = "ok" /\ polygons = merge.out)
    /\ pc \in {"loop", "move", "height"} => polygons # << >>
    /\ (pc = "done" /\ result.ok) =>
          /\ polygons # << >>
          /\ \/ Len(smooth_path) = max_smooth_path
             \/ LastCall.op = "find_straight_path" /\ steer = None

\* a merge has put a polygon first that the corridor did not start with,
\* taken from the end of a visited trace of two different polygons
C25_Witness_CorridorMovedOn ==
    /\ pc = "height"
    /\ merge.status = "ok"
    /\ Len(merge.visited) = 2
    /\ merge.visited[1] # merge.visited[2]
    /\ polygons[1] # merge.path[1]
    /\ polygons[1] = last_visited

---------------------------------------------------------------------------
(* The merge's preconditions inside find_smooth_path.                      *)

\* fix_up_corridor has been called
MergeReached == merge.status \notin {"none", "input"}

\* the visited trace is within max_move_visits, itself within max_path, and
\* holds the polygon the move started from, the corridor's first
VisitedTraceIsSound ==
    /\ max_move_visits <= max_path
    /\ Len(merge.visited) <= max_move_visits
    /\ merge.path # << >>
    /\ \E k \in DOMAIN merge.visited : merge.visited[k] = merge.path[1]

\* visited.len() - furthest_visited of line 94
required_of_merge ==
    Len(merge.visited) - find_common(merge.path, merge.visited).j

\* C26: at every merge reached inside find_smooth_path, when
\* max_move_visits <= max_path and the visited trace has at most
\* max_move_visits entries and contains polygons[0], find_common finds a
\* match, required <= capacity, the merge returns and the corridor it leaves
\* is no longer than its capacity; the capacity is max_path from the
\* corridor query on and never changes during smoothing.
C26_MergePreconditionsHold ==
    /\ pc \in {"boundary_start", "boundary_end", "loop", "move", "height"} =>
          /\ capacity = max_path
          /\ Len(polygons) <= capacity
    /\ (MergeReached /\ VisitedTraceIsSound) =>
          /\ find_common(merge.path, merge.visited) # None
          /\ required_of_merge <= merge.cap
          /\ merge.status = "ok"
          /\ Len(merge.out) <= merge.cap
          /\ merge.cap = max_path

\* a merge of a full corridor with a visited trace of max_move_visits
\* polygons, the one the move started from first
C26_Witness_FullCorridorMerged ==
    /\ pc = "height"
    /\ MergeReached
    /\ VisitedTraceIsSound
    /\ Len(merge.path) = max_path
    /\ Len(merge.visited) = max_move_visits
    /\ merge.visited[1] = merge.path[1]
    /\ merge.visited[Len(merge.visited)] # merge.path[1]

---------------------------------------------------------------------------
(* tile_map and the engine's accepted tiles.                               *)

\* this request began with no tile resident and its first load, the start
\* tile's, was accepted by NavMesh::add_tile
StartTileRegisteredByThisRequest ==
    /\ fresh
    /\ Len(calls) >= 2
    /\ calls[2].op = "add_tile"
    /\ ~calls[2].failed

\* C27: after any sequence of find_path calls the ids in tile_map are
\* exactly the ids NavMesh::add_tile accepted: none is recorded before or
\* without an accepted registration; and a start tile registered by a
\* request stays resident whatever that request does next, a failure on its
\* end tile or at any later step included.
C27_TileMapIsTheAcceptedTiles ==
    /\ tile_map = registered
    /\ StartTileRegisteredByThisRequest =>
          /\ has_tile(tile_map, start_tile[1], start_tile[2])
          /\ packed_tile_id(start_tile[1], start_tile[2]) \in registered

\* a request registered its start tile and its end tile and failed at a
\* later step, a query of the engine: both ids are resident
C27_Witness_FailedAfterBothTiles ==
    /\ StartTileRegisteredByThisRequest
    /\ pc = "error"
    /\ LastCall.op \notin {"read_tile_data", "add_tile"}
    /\ Cardinality(tile_map) = 2
    /\ tile_map = { packed_tile_id(start_tile[1], start_tile[2]),
                    packed_tile_id(end_tile[1], end_tile[2]) }

====
